---- MODULE Spec2Model ----
(***************************************************************************)
(* Structured state-space world model: the S4 layer in its two execution   *)
(* modes (src/s4wm/nn/s4_nn.py), the per-row cache kept by TorchWrapper    *)
(* (src/s4wm/scripts/torch_interface.py) and the rollout controller        *)
(* S4WorldModel.dream (src/models/s4wm/s4_wm.py).                          *)
(*                                                                         *)
(* Numbers.  The hidden state of a layer is a complex vector; it is        *)
(* modelled with state dimension N = 1 and one feature channel, as a       *)
(* Gaussian integer <<re, im>> modulo Modulus.  Real tensors (inputs,      *)
(* outputs, kernels) are integers modulo Modulus.  Sequences over time are *)
(* TLA+ sequences.                                                         *)
(***************************************************************************)
EXTENDS Integers, Sequences, FiniteSets, TLC

\* ---------------------------------------------------------------- bounds
Modulus == 3
\* batch_dim handed to TorchWrapper.__init__
BatchDim == 2
\* number of forward / reset_cache calls followed in one behaviour
MaxCalls == 3

\* ------------------------------------------------------ program constants
\* S4Blocks.n_blocks default
S4Blocks_n_blocks == 2
\* S4Blocks.n_layers default
S4Blocks_n_layers == 2
\* for i in range(4) in reset_cache
ResetBlocks == 4
\* for j in range(2) in reset_cache
ResetLayers == 2

\* ------------------------------------------------------------ arithmetic
Mod(x) == x % Modulus

Reals == 0 .. (Modulus - 1)

Cx == Reals \X Reals

CZero == <<0, 0>>

COne == <<1, 0>>

CAdd(a, b) == <<Mod(a[1] + b[1]), Mod(a[2] + b[2])>>

CMul(a, b) == <<Mod(a[1] * b[1] - a[2] * b[2]), Mod(a[1] * b[2] + a[2] * b[1])>>

CConj(a) == <<a[1], Mod(0 - a[2])>>

CReal(r) == <<Mod(r), 0>>

\* .real of a complex number
Re(a) == a[1]

RECURSIVE CPow(_, _)
CPow(a, n) == IF n = 0 THEN COne ELSE CMul(a, CPow(a, n - 1))

RECURSIVE Exp2(_)
\* jnp.exp on the integer grid: positive and strictly increasing
Exp2(n) == IF n = 0 THEN 1 ELSE 2 * Exp2(n - 1)

Rows == 0 .. (BatchDim - 1)

\* --------------------------------------------------- layer parameters
\* One S4Layer's learned parameters.  Lambda_re is stored in units of 1e-4.
ParamSets ==
    { [Lambda_re |-> -1, Lambda_im |-> 1, P |-> 1, B |-> 1, C |-> <<1, 1>>, D |-> 1, log_step |-> 0],
      [Lambda_re |-> -2, Lambda_im |-> 1, P |-> 0, B |-> 1, C |-> <<1, 2>>, D |-> 2, log_step |-> 1],
      [Lambda_re |-> 1, Lambda_im |-> 1, P |-> 1, B |-> 2, C |-> <<2, 1>>, D |-> 1, log_step |-> 0] }

\* the parameters self.init draws from the initializers (hippo_initializer,
\* log_step_initializer, ones for D)
InitParams == [Lambda_re |-> -1, Lambda_im |-> 0, P |-> 1, B |-> 1, C |-> <<1, 0>>, D |-> 1, log_step |-> 0]

\* the stored real part used as it is
S4Layer_Lambda_re_stored(p) == p.Lambda_re

\* self.Lambda = jnp.clip(self.Lambda_re, None, -1e-4) + 1j * self.Lambda_im
S4Layer_Lambda_re(p) == IF p.Lambda_re > -1 THEN -1 ELSE p.Lambda_re

S4Layer_Lambda(p) == <<Mod(S4Layer_Lambda_re(p)), Mod(p.Lambda_im)>>

\* self.C = self.C[..., 0] + 1j * self.C[..., 1]
S4Layer_C(p) == <<Mod(p.C[1]), Mod(p.C[2])>>

\* self.step = jnp.exp(self.param("log_step", ...))
S4Layer_step(p) == Exp2(p.log_step)

\* --------------------------------------------- s4_ssm (not under src/)
\* discrete_DPLR(Lambda, P, Q, B, C, step, L): the discrete operator bundle
\* (Ab, Bb, Cb), a function of (Lambda, P, B, C, step).  Over the finite ring
\* the DPLR matrix is A = Lambda - P * conj(Q) and the transform keeps the
\* dependence on every parameter.
discrete_DPLR(Lambda, P, Q, B, C, step) ==
    LET A == CAdd(Lambda, CReal(0 - P * Q))
    IN  [Ab |-> CAdd(COne, CMul(CReal(step), A)),
         Bb |-> CReal(step * B),
         Cb |-> CConj(C)]

\* kernel_DPLR(Lambda, P, Q, B, C, step, L): the length-L real kernel of the
\* same discrete system, K[l] = Re(Cb * Ab^l * Bb), in closed form.
kernel_DPLR(Lambda, P, Q, B, C, step, L) ==
    LET d == discrete_DPLR(Lambda, P, Q, B, C, step)
    IN  [l \in 1 .. L |-> Re(CMul(d.Cb, CMul(CPow(d.Ab, l - 1), d.Bb)))]

RECURSIVE ConvSum(_, _, _, _)
ConvSum(u, K, t, j) ==
    IF j > t THEN 0 ELSE Mod(K[j] * u[t - j + 1] + ConvSum(u, K, t, j + 1))

\* causal_convolution(u, K): y[t] = sum over j <= t of K[j] * u[t - j]
causal_convolution(u, K) == [t \in 1 .. Len(u) |-> ConvSum(u, K, t, 1)]

scan_cons(y, rest) == [x |-> rest.x, ys |-> <<y>> \o rest.ys]

RECURSIVE scan_SSM(_, _, _)
RECURSIVE scan_emit(_, _, _)
\* scan_SSM(Ab, Bb, Cb, u, x0): x_k = Ab x_{k-1} + Bb u_k, y_k = Cb x_k;
\* returns the final state and the outputs.
scan_SSM(ssm, u, x0) ==
    IF Len(u) = 0 THEN [x |-> x0, ys |-> <<>>]
    ELSE scan_emit(ssm, CAdd(CMul(ssm.Ab, x0), CMul(ssm.Bb, CReal(Head(u)))), u)

scan_emit(ssm, x1, u) == scan_cons(CMul(ssm.Cb, x1), scan_SSM(ssm, Tail(u), x1))

\* ------------------------------------------------------------- S4Layer
\* flax variable collections a call may write
Collections == {"params", "cache", "prime"}

\* a variable the collection handed to apply does not hold
AbsentCache == <<>>

AbsentPrime == [absent |-> TRUE]

\* the collections S4Layer.setup declares: the cache and prime variables are
\* created in the rnn_mode branch only
S4Layer_collections(rnn_mode) == IF rnn_mode THEN {"cache", "prime"} ELSE {}

\* init_discrete() of S4Layer.setup
S4Layer_init_discrete(p) ==
    discrete_DPLR(S4Layer_Lambda(p), p.P, p.P, p.B, S4Layer_C(p), S4Layer_step(p))

\* setup with the prime collection mutable, but the stored bundle kept
S4Layer_setup_keep_prime(rnn_mode, p, l_max, cache, prime, mutable) ==
    IF ~rnn_mode
    THEN [K |-> kernel_DPLR(S4Layer_Lambda(p), p.P, p.P, p.B, S4Layer_C(p), S4Layer_step(p), l_max),
          ssm |-> prime, cache |-> cache, prime |-> prime]
    ELSE LET x_k_1 == IF cache = AbsentCache THEN CZero ELSE cache
             ssm_var == IF prime = AbsentPrime THEN S4Layer_init_discrete(p) ELSE prime
         IN  [K |-> <<>>, ssm |-> ssm_var, cache |-> x_k_1, prime |-> ssm_var]

\* S4Layer.setup: CNN mode builds the kernel; RNN mode reads the cache and
\* the primed bundle, and recomputes the bundle and zeroes the cache when
\* the prime collection is mutable.
S4Layer_setup(rnn_mode, p, l_max, cache, prime, mutable) ==
    IF ~rnn_mode
    THEN [K |-> kernel_DPLR(S4Layer_Lambda(p), p.P, p.P, p.B, S4Layer_C(p), S4Layer_step(p), l_max),
          ssm |-> prime, cache |-> cache, prime |-> prime]
    ELSE LET x_k_1 == IF cache = AbsentCache THEN CZero ELSE cache
             ssm_var == IF prime = AbsentPrime THEN S4Layer_init_discrete(p) ELSE prime
         IN  IF "prime" \in mutable
             THEN [K |-> <<>>, ssm |-> S4Layer_init_discrete(p), cache |-> CZero,
                   prime |-> S4Layer_init_discrete(p)]
             ELSE [K |-> <<>>, ssm |-> ssm_var, cache |-> x_k_1, prime |-> ssm_var]

\* CNN mode - parallel forward pass
S4Layer_cnn(p, s, conv, u) ==
    [y |-> [t \in 1 .. Len(u) |-> Mod(conv[t] + p.D * u[t])], cache |-> s.cache, prime |-> s.prime]

\* the RNN branch that writes the scan state back whenever the cache is
\* mutable
S4Layer_rnn_writeback_primed(p, s, r, mutable, u) ==
    [y |-> [t \in 1 .. Len(u) |-> Mod(Re(r.ys[t]) + p.D * u[t])],
     cache |-> IF "cache" \in mutable THEN r.x ELSE s.cache,
     prime |-> s.prime]

\* the RNN branch that never writes the scan state back
S4Layer_rnn_no_writeback(p, s, r, mutable, u) ==
    [y |-> [t \in 1 .. Len(u) |-> Mod(Re(r.ys[t]) + p.D * u[t])],
     cache |-> s.cache,
     prime |-> s.prime]

\* RNN mode - sequential forward pass; r is the result of scan_SSM
S4Layer_rnn(p, s, r, mutable, u) ==
    [y |-> [t \in 1 .. Len(u) |-> Mod(Re(r.ys[t]) + p.D * u[t])],
     cache |-> IF "cache" \in mutable /\ "prime" \notin mutable THEN r.x ELSE s.cache,
     prime |-> s.prime]

S4Layer_run(rnn_mode, p, s, mutable, u) ==
    IF ~rnn_mode THEN S4Layer_cnn(p, s, causal_convolution(u, s.K), u)
    ELSE S4Layer_rnn(p, s, scan_SSM(s.ssm, u, s.cache), mutable, u)

\* S4Layer.__call__ on one sequence u, with the variables of this layer and
\* the set of mutable collections of the enclosing apply.
S4Layer_call(rnn_mode, p, l_max, cache, prime, mutable, u) ==
    S4Layer_run(rnn_mode, p, S4Layer_setup(rnn_mode, p, l_max, cache, prime, mutable), mutable, u)

\* ------------------------------------------------ blocks of layers
\* cfg: [rnn_mode, params, l_max, mutable, n_blocks, n_layers]
LayerKeys(n_blocks, n_layers) == (0 .. (n_blocks - 1)) \X (0 .. (n_layers - 1))

\* SequenceBlock.__call__: skip + seq(x); norm, gelu, dropout and the dense
\* heads are learned maps outside the recurrence and pass x through.
SequenceBlock_skip(x, r) ==
    [x |-> [t \in 1 .. Len(x) |-> Mod(x[t] + r.y[t])], cache |-> r.cache, prime |-> r.prime]

SequenceBlock_call(cfg, cache, prime, x) ==
    SequenceBlock_skip(x, S4Layer_call(cfg.rnn_mode, cfg.params, cfg.l_max, cache, prime,
                                       cfg.mutable, x))

\* the variables of layer k after its call, and its output as the next input
S4Block_store(st, k, r) ==
    [x |-> r.x,
     cache |-> [st.cache EXCEPT ![k] = r.cache],
     prime |-> [st.prime EXCEPT ![k] = r.prime]]

RECURSIVE S4Block_layers(_, _, _, _)
\* for layer in self.layers: x = layer(x)
S4Block_layers(cfg, i, j, st) ==
    IF j = cfg.n_layers THEN st
    ELSE S4Block_layers(cfg, i, j + 1,
             S4Block_store(st, <<i, j>>,
                 SequenceBlock_call(cfg, st.cache[<<i, j>>], st.prime[<<i, j>>], st.x)))

\* x = self.drop(self.dense_2(...gelu(self.dense_1(self.norm(x))))) + skip
S4Block_tail(r) == [r EXCEPT !.x = [t \in 1 .. Len(r.x) |-> Mod(r.x[t] + r.x[t])]]

\* S4Block.__call__: the layers, then the feed-forward tail plus skip
S4Block_call(cfg, i, st) == S4Block_tail(S4Block_layers(cfg, i, 0, st))

RECURSIVE S4Blocks_blocks(_, _, _)
\* S4Blocks.__call__: for block in self.blocks: x = block(x)
S4Blocks_blocks(cfg, i, st) ==
    IF i = cfg.n_blocks THEN st
    ELSE S4Blocks_blocks(cfg, i + 1, S4Block_call(cfg, i, st))

\* out_axes=0: the per-row results stacked along the batch axis
S4Blocks_stack(keys, rows) ==
    [x |-> [b \in DOMAIN rows |-> rows[b].x],
     cache |-> [k \in keys |-> [b \in DOMAIN rows |-> rows[b].cache[k]]],
     prime |-> rows[0].prime]

\* a batch map whose rows all read the cache of row 0
S4Blocks_vmap_shared_cache(cfg, xs, cache, prime) ==
    S4Blocks_stack(LayerKeys(cfg.n_blocks, cfg.n_layers),
        [b \in DOMAIN xs |->
            S4Blocks_blocks(cfg, 0,
                [x |-> xs[b],
                 cache |-> [k \in LayerKeys(cfg.n_blocks, cfg.n_layers) |-> cache[k][0]],
                 prime |-> prime])])

\* S4Blocks = nn.vmap(S4Blocks, in_axes=0, variable_axes={"params": None,
\* "cache": 0, "prime": None}): every batch row runs the blocks on its own
\* cache row; parameters and the primed bundle are shared.
S4Blocks_vmap(cfg, xs, cache, prime) ==
    S4Blocks_stack(LayerKeys(cfg.n_blocks, cfg.n_layers),
        [b \in DOMAIN xs |->
            S4Blocks_blocks(cfg, 0,
                [x |-> xs[b],
                 cache |-> [k \in LayerKeys(cfg.n_blocks, cfg.n_layers) |-> cache[k][b]],
                 prime |-> prime])])

\* ------------------------------------------- priming (S4WorldModel)
WM_init_variables(cfg, r) ==
    [collections |-> {"params"} \cup S4Layer_collections(cfg.rnn_mode),
     cache |-> r.cache, prime |-> r.prime]

\* self.init(rngs, init_depth, init_actions): every collection is mutable and
\* no variable exists yet; the parameters come from the initializers.  Only
\* the collections the layers declare are returned.
WM_init(cfg, xs) ==
    WM_init_variables(cfg,
        S4Blocks_vmap([cfg EXCEPT !.params = InitParams, !.mutable = Collections], xs,
            [k \in LayerKeys(cfg.n_blocks, cfg.n_layers) |-> [b \in DOMAIN xs |-> AbsentCache]],
            [k \in LayerKeys(cfg.n_blocks, cfg.n_layers) |-> AbsentPrime]))

\* the second half of _init_RNN_mode, on the variables self.init returned
prime_apply(cfg, params, xs, variables) ==
    IF "cache" \notin variables.collections \/ "prime" \notin variables.collections
    THEN [err |-> "KeyError", cache |-> <<>>, prime |-> <<>>]
    ELSE [err |-> "none", cache |-> variables.cache,
          prime |-> S4Blocks_vmap([cfg EXCEPT !.params = params, !.mutable = {"prime"}],
                                  xs, variables.cache, variables.prime).prime]

\* _init_RNN_mode: variables = self.init(...); vars = {params, variables["cache"],
\* variables["prime"]}; _, prime_vars = self.apply(vars, ..., mutable=["prime"]);
\* the cache kept is vars["cache"], the bundle kept is prime_vars["prime"].
init_RNN_mode(cfg, params, xs) == prime_apply(cfg, params, xs, WM_init(cfg, xs))

\* ------------------------------------------------------- TorchWrapper
VARIABLES
    n_blocks,    \* blocks of the wrapped model's PSSM_blocks
    params,      \* TorchWrapper.params
    rnn_cache,   \* TorchWrapper.rnn_cache: layer -> batch row -> state
    prime,       \* TorchWrapper.prime: layer -> discrete operator bundle
    calls,       \* forward / reset_cache calls made so far
    last,        \* the last call: its arguments, the cache it found, its outcome
    ref_cache,   \* the cache of a twin wrapper given the same forwards, no reset
    ref_hidden,  \* the hidden output of the twin's last forward
    touched      \* rows some reset_cache call has addressed so far

\* the model TorchWrapper.__init__ builds: rnn_mode=True, l_max 74 (one step
\* per call, so the horizon plays no part)
WrapperCfg(nb) ==
    [rnn_mode |-> TRUE, params |-> InitParams, l_max |-> 1, mutable |-> {},
     n_blocks |-> nb, n_layers |-> S4Blocks_n_layers]

\* block counts of the wrapped model: the S4Blocks default, and the count
\* reset_cache walks
BlockConfigs == {S4Blocks_n_blocks, ResetBlocks}

\* init_depth / init_actions: zeros, one step per row
ZeroInputs == [b \in Rows |-> <<0>>]

\* one environment tick per row: the mixed (latent, action) input of a row
Inputs == 0 .. 1

NoCall == [op |-> "init", batch_idx |-> {}, u |-> <<>>, pre_cache |-> <<>>,
           err |-> "none", hidden |-> <<>>, ssm |-> <<>>, params |-> <<>>]

\* TorchWrapper.__init__: restore the parameters, prime, and run one forward
\* whose result is dropped
TorchWrapper_init(nb, p) ==
    LET r == init_RNN_mode(WrapperCfg(nb), p, ZeroInputs)
    IN  [rnn_cache |-> r.cache, prime |-> r.prime, params |-> p]

\* _jitted_forward: model.apply({params, cache, prime}, imgs, actions,
\* single_step=True, mutable=["cache"], method="forward_RNN_mode")
jitted_forward(nb, p, cache, pr, u) ==
    S4Blocks_vmap([WrapperCfg(nb) EXCEPT !.params = p, !.mutable = {"cache"}],
                  [b \in Rows |-> <<u[b]>>], cache, pr)

\* the twin wrapper's forward on the same inputs
Twin_store(r) ==
    /\ ref_cache' = r.cache
    /\ ref_hidden' = [b \in Rows |-> r.x[b][1]]

\* a forward that returns the outputs and drops vars["cache"]
Forward_store_drop_cache(u, r) ==
    /\ rnn_cache' = rnn_cache
    /\ Twin_store(jitted_forward(n_blocks, params, ref_cache, prime, u))
    /\ last' = [op |-> "forward", batch_idx |-> {}, u |-> u, pre_cache |-> rnn_cache,
                err |-> "none", hidden |-> [b \in Rows |-> r.x[b][1]],
                ssm |-> prime, params |-> params]

\* self.rnn_cache = vars["cache"]; return jax_preds["hidden"], ...
Forward_store(u, r) ==
    /\ rnn_cache' = r.cache
    /\ Twin_store(jitted_forward(n_blocks, params, ref_cache, prime, u))
    /\ last' = [op |-> "forward", batch_idx |-> {}, u |-> u, pre_cache |-> rnn_cache,
                err |-> "none", hidden |-> [b \in Rows |-> r.x[b][1]],
                ssm |-> prime, params |-> params]

\* TorchWrapper.forward
Forward(u) ==
    /\ calls < MaxCalls
    /\ Forward_store(u, jitted_forward(n_blocks, params, rnn_cache, prime, u))
    /\ calls' = calls + 1
    /\ UNCHANGED <<n_blocks, params, prime, touched>>

\* x.at[jnp.array([batch_idx])]: a negative index counts from the end, an
\* index still out of range addresses no row (the update is dropped)
NormIndex(i, n) == IF i < 0 THEN i + n ELSE i

Addressed(batch_idx, n) == {b \in 0 .. (n - 1) : \E i \in batch_idx : NormIndex(i, n) = b}

\* an update that overwrites the whole array
at_set_all(arr, batch_idx, val) == [b \in DOMAIN arr |-> val]

\* arr.at[jnp.array([batch_idx])].set(val)
at_set(arr, batch_idx, val) ==
    [b \in DOMAIN arr |-> IF b \in Addressed(batch_idx, BatchDim) THEN val ELSE arr[b]]

\* jnp.ones((d_ssm, d_pssm_block), dtype=jnp.complex64)
ResetValue == COne

RECURSIVE reset_loop(_, _, _)
\* for i in range(4): for j in range(2): cache[blocks_i][layers_j] = ...at[].set(ones)
\* pos counts the (i, j) pairs done; a layer the cache does not hold raises
reset_loop(cache, batch_idx, pos) ==
    IF pos = ResetBlocks * ResetLayers THEN [cache |-> cache, err |-> "none"]
    ELSE LET k == <<pos \div ResetLayers, pos % ResetLayers>>
         IN  IF k \notin DOMAIN cache THEN [cache |-> cache, err |-> "KeyError"]
             ELSE reset_loop([cache EXCEPT ![k] = at_set(cache[k], batch_idx, ResetValue)],
                             batch_idx, pos + 1)

\* TorchWrapper.reset_cache
reset_cache(cache, batch_idx) == reset_loop(cache, batch_idx, 0)

\* indices a caller may hand to reset_cache, in and out of range
IdxRange == (0 - BatchDim - 1) .. BatchDim

ResetCache_store(batch_idx, r) ==
    /\ rnn_cache' = r.cache
    /\ last' = [NoCall EXCEPT !.op = "reset_cache", !.batch_idx = batch_idx,
                              !.pre_cache = rnn_cache, !.err = r.err]

ResetCache(batch_idx) ==
    /\ calls < MaxCalls
    /\ ResetCache_store(batch_idx, reset_cache(rnn_cache, batch_idx))
    /\ touched' = touched \cup Addressed(batch_idx, BatchDim)
    /\ calls' = calls + 1
    /\ UNCHANGED <<n_blocks, params, prime, ref_cache, ref_hidden>>

wrapper_vars == <<n_blocks, params, rnn_cache, prime, calls, last, ref_cache, ref_hidden, touched>>

WrapperInit ==
    /\ n_blocks \in BlockConfigs
    /\ params \in ParamSets
    /\ rnn_cache = TorchWrapper_init(n_blocks, params).rnn_cache
    /\ prime = TorchWrapper_init(n_blocks, params).prime
    /\ calls = 0
    /\ last = NoCall
    /\ ref_cache = TorchWrapper_init(n_blocks, params).rnn_cache
    /\ ref_hidden = <<>>
    /\ touched = {}

DoForward == \E u \in [Rows -> Inputs] : Forward(u)

DoResetCache == \E i, j \in IdxRange : i <= j /\ ResetCache({i, j})

\* --------------------------------------- one S4Layer, both modes
VARIABLES
    layer        \* one layer's parameters, input sequence and outputs so far

\* longest sequence (and largest l_max) tried on the single layer
LMax == 3

\* no RNN-mode call made yet
NoLayerCall == [op |-> "none", mutable |-> {}, u |-> <<>>, pre_cache |-> AbsentCache,
                pre_prime |-> AbsentPrime]

NoLayer == [params |-> InitParams, l_max |-> 0, u |-> <<>>, cnn_done |-> FALSE, cnn |-> <<>>,
            primed |-> FALSE, cache |-> AbsentCache, prime |-> AbsentPrime, rnn |-> <<>>,
            call |-> NoLayerCall]

\* an RNN-mode call as the layer meets it: the mutable collections, the
\* input and the variables the call finds
LayerCall(mutable, u) ==
    [op |-> "rnn", mutable |-> mutable, u |-> u, pre_cache |-> layer.cache,
     pre_prime |-> layer.prime]

RECURSIVE SeqsOfLen(_, _)
SeqsOfLen(S, n) ==
    IF n = 0 THEN {<<>>} ELSE {<<x>> \o t : x \in S, t \in SeqsOfLen(S, n - 1)}

SeqsUpTo(S, n) == UNION {SeqsOfLen(S, m) : m \in 1 .. n}

\* the layer in CNN mode (rnn_mode=False) applied to the whole sequence
LayerCNN ==
    /\ layer.l_max > 0
    /\ ~layer.cnn_done
    /\ layer' = [layer EXCEPT
           !.cnn_done = TRUE,
           !.cnn = S4Layer_call(FALSE, layer.params, layer.l_max, AbsentCache, AbsentPrime,
                                {}, layer.u).y]

Layer_primed(r) ==
    [layer EXCEPT !.primed = TRUE, !.cache = r.cache, !.prime = r.prime,
                  !.call = LayerCall({"cache", "prime"}, <<0>>)]

\* the layer in RNN mode applied with the prime collection mutable
LayerPrime ==
    /\ layer.l_max > 0
    /\ ~layer.primed
    /\ layer' = Layer_primed(S4Layer_call(TRUE, layer.params, layer.l_max, layer.cache,
                                           layer.prime, {"cache", "prime"}, <<0>>))

Layer_stepped(r) ==
    [layer EXCEPT !.cache = r.cache, !.rnn = layer.rnn \o r.y,
                  !.call = LayerCall({"cache"}, <<layer.u[Len(layer.rnn) + 1]>>)]

\* the layer in RNN mode advanced by the next input, the cache mutable
LayerStep ==
    /\ layer.primed
    /\ Len(layer.rnn) < Len(layer.u)
    /\ layer' = Layer_stepped(S4Layer_call(TRUE, layer.params, layer.l_max, layer.cache,
                                            layer.prime, {"cache"},
                                            <<layer.u[Len(layer.rnn) + 1]>>))

Layer_reprimed(p, mutable, v, r) ==
    [layer EXCEPT !.params = p, !.cnn_done = FALSE, !.cnn = <<>>, !.rnn = <<>>,
                  !.cache = r.cache, !.prime = r.prime, !.call = LayerCall(mutable, <<v>>)]

\* a layer that has run is applied to an input v under parameters p with
\* the prime collection mutable, the cache collection mutable or not; the
\* outputs collected under the earlier parameters are dropped
LayerReprime(p, mutable, v) ==
    /\ layer.primed
    /\ layer.rnn # <<>>
    /\ "prime" \in mutable
    /\ layer' = Layer_reprimed(p, mutable, v,
                     S4Layer_call(TRUE, p, layer.l_max, layer.cache, layer.prime, mutable, <<v>>))

\* ------------------------------------------------------ S4WorldModel
VARIABLES
    wm           \* the last dream call on a S4WorldModel: arguments and outcome

\* longest context window tried
MaxCtx == 2
\* largest dream_length tried
MaxDream == 2
\* n_layers of S4_config
DreamLayers == 1
\* seed: int = 42
S4WorldModel_seed == 42

\* self.PSSM_blocks = S4Block(**self.S4_config, rnn_mode=False, ...)
PSSM_rnn_mode == FALSE

\* one S4Block of S4_config.n_layers layers
DreamCfg(p, T) ==
    [rnn_mode |-> PSSM_rnn_mode, params |-> p, l_max |-> T, mutable |-> {},
     n_blocks |-> 1, n_layers |-> DreamLayers]

\* the batch of a dream call: one environment
DreamRows == {0}

\* self.rng = jax.random.PRNGKey(self.seed)
PRNGKey(seed) == Mod(seed)

\* dist.sample(seed=key) of the distribution built from statistics st: a
\* function of the statistics and the key alone
Sample(st, key) == Mod(st + key)

\* self.input_head(jnp.concatenate((z, a), axis=-1))
input_head(z, a) == Mod(z + a)

\* get_latent_posteriors_from_images(image)[0]: encoder, statistics head,
\* then z_posterior_dist.sample(seed=self.rng)
latent_posterior(img) == Sample(img, PRNGKey(S4WorldModel_seed))

\* get_latent_prior_from_hidden(hidden).sample(seed=self.rng)
latent_prior_sample(hidden) == Sample(hidden, PRNGKey(S4WorldModel_seed))

\* apply(variables, ..., mutable=["cache"]) of the PSSM blocks on g
PSSM_apply(cfg, S4_vars, g) ==
    S4Blocks_vmap([cfg EXCEPT !.mutable = {"cache"}], g, S4_vars.hidden, S4_vars.matrices)

build_context_out(T, r) ==
    [prior |-> [b \in DOMAIN r.x |-> latent_prior_sample(r.x[b][T])],
     hidden |-> [b \in DOMAIN r.x |-> r.x[b][T]],
     cache |-> r.cache]

\* _build_context under apply(..., mutable=["cache"]): (last_prior,
\* context_hiddens[:, -1]) and the cache the call leaves
build_context(cfg, S4_vars, imgs, actions) ==
    build_context_out(Len(imgs[0]),
        PSSM_apply(cfg, S4_vars,
            [b \in DOMAIN imgs |->
                [t \in 1 .. Len(imgs[b]) |->
                    input_head(latent_posterior(imgs[b][t]), actions[b][t])]]))

open_loop_out(r) ==
    [prior |-> [b \in DOMAIN r.x |-> latent_prior_sample(r.x[b][1])],
     hidden |-> [b \in DOMAIN r.x |-> r.x[b][1]],
     cache |-> r.cache]

\* _open_loop_prediction under apply(..., mutable=["cache"])
open_loop_prediction(cfg, S4_vars, prev_prior, next_action) ==
    open_loop_out(PSSM_apply(cfg, S4_vars,
        [b \in DOMAIN prev_prior |-> <<input_head(prev_prior[b], next_action[b])>>]))

\* _decode_predictions: the decoder's mean over the len(hiddens) time steps
decode_predictions(hiddens, priors) ==
    [t \in 1 .. Len(hiddens) |-> [b \in DOMAIN hiddens[t] |-> Mod(hiddens[t][b] + priors[t][b])]]

RECURSIVE dream_rollout(_, _, _, _, _)
dream_rollout_step(cfg, st, dream_actions, dream_length, r) ==
    dream_rollout(cfg,
        [st EXCEPT !.S4_vars.hidden = r.cache,
                   !.priors = Append(st.priors, r.prior),
                   !.hiddens = Append(st.hiddens, r.hidden),
                   !.last_prior = r.prior,
                   !.phases = Append(st.phases, "ROLLOUT_STEP")],
        dream_actions, dream_length, Len(st.hiddens))

\* for i in range(dream_length): one _open_loop_prediction on last_prior and
\* dream_actions[:, i]; store the cache; append the pair
dream_rollout(cfg, st, dream_actions, dream_length, i) ==
    IF i >= dream_length THEN st
    ELSE dream_rollout_step(cfg, st, dream_actions, dream_length,
             open_loop_prediction(cfg, st.S4_vars, st.last_prior,
                 [b \in DOMAIN dream_actions |-> dream_actions[b][i + 1]]))

dream_decode(st) ==
    [st EXCEPT !.pred_imgs = decode_predictions(st.hiddens, st.priors),
               !.phases = Append(st.phases, "DECODE"),
               !.returned = TRUE]

DreamFailed(e) ==
    [err |-> e, phases |-> <<"PRIMING">>, primed |-> FALSE, returned |-> FALSE,
     S4_vars |-> [hidden |-> <<>>, matrices |-> <<>>], primed_cache |-> <<>>,
     priors |-> <<>>, hiddens |-> <<>>, last_prior |-> <<>>, pred_imgs |-> <<>>]

dream_context(cfg, S4_vars, dream_actions, dream_length, c) ==
    dream_decode(dream_rollout(cfg,
        [err |-> "none", phases |-> <<"PRIMING">>, primed |-> TRUE, returned |-> FALSE,
         S4_vars |-> [S4_vars EXCEPT !.hidden = c.cache], primed_cache |-> c.cache,
         priors |-> <<c.prior>>, hiddens |-> <<c.hidden>>, last_prior |-> c.prior,
         pred_imgs |-> <<>>],
        dream_actions, dream_length, 0))

dream_primed(cfg, imgs, actions, dream_actions, dream_length, init) ==
    IF init.err # "none" THEN DreamFailed(init.err)
    ELSE dream_context(cfg, [hidden |-> init.cache, matrices |-> init.prime],
             dream_actions, dream_length,
             build_context(cfg, [hidden |-> init.cache, matrices |-> init.prime],
                           imgs, actions))

\* S4WorldModel.dream(params, context_imgs, context_actions, dream_actions,
\* dream_length): _init_RNN_mode on zeros like the context, the context
\* through _build_context, dream_length open-loop steps, one decode.  An
\* exception of a step ends the call.
dream(p, imgs, actions, dream_actions, dream_length) ==
    dream_primed(DreamCfg(p, Len(imgs[0])), imgs, actions, dream_actions, dream_length,
        init_RNN_mode(DreamCfg(p, Len(imgs[0])), p,
                      [b \in DOMAIN imgs |-> [t \in 1 .. Len(imgs[b]) |-> 0]]))

NoWM == [called |-> FALSE, params |-> InitParams, imgs |-> <<>>, dream_actions |-> <<>>,
         dream_length |-> 0, out |-> DreamFailed("none")]

\* one dream call on a constructed model
Dream(p, ctx, acts, K) ==
    wm' = [called |-> TRUE, params |-> p, imgs |-> ctx, dream_actions |-> acts,
           dream_length |-> K,
           out |-> dream(p, [b \in DreamRows |-> ctx], [b \in DreamRows |-> [t \in 1 .. Len(ctx) |-> 0]],
                         [b \in DreamRows |-> acts], K)]

\* ------------------------------ S4WorldModel: S4_vars of instances
VARIABLES
    attrs        \* S4_vars of the class and of each instance, and the last call

\* two S4WorldModel instances: calls are made on A, B only reads
Instances == {"A", "B"}

\* Python None
None == <<>>

\* an instance without an attribute S4_vars of its own
NoAttr == [no_attr |-> TRUE]

\* S4_vars = {"hidden": None, "matrcies": None} in the class body
S4_vars_class == [hidden |-> None, matrcies |-> None]

NoInstCall == [op |-> "none", err |-> "none", params |-> InitParams, imgs |-> <<>>,
               dream_actions |-> <<>>, dream_length |-> 0, out |-> DreamFailed("none")]

NoAttrs == [cls |-> S4_vars_class, inst |-> [i \in Instances |-> NoAttr], last |-> NoInstCall]

\* self.S4_vars read on instance i: its own attribute, else the class's
S4_vars_read(a, i) == IF a.inst[i] # NoAttr THEN a.inst[i] ELSE a.cls

\* self.S4_vars = d on instance i: binds the attribute of the instance
S4_vars_assign(a, i, d) == [a EXCEPT !.inst[i] = d]

\* self.S4_vars["hidden"] = v on instance i: writes into the dict the
\* attribute lookup finds
S4_vars_set_hidden(a, i, v) ==
    IF a.inst[i] # NoAttr THEN [a EXCEPT !.inst[i] = [hidden |-> v] @@ a.inst[i]]
    ELSE [a EXCEPT !.cls = [hidden |-> v] @@ a.cls]

\* _init_RNN_mode on instance i: self.S4_vars is bound only if the priming
\* went through
init_RNN_mode_store(a, i, init) ==
    IF init.err # "none" THEN [err |-> init.err, attrs |-> a]
    ELSE [err |-> "none",
          attrs |-> S4_vars_assign(a, i, [hidden |-> init.cache, matrices |-> init.prime])]

init_RNN_mode_on(a, i, p, imgs) ==
    init_RNN_mode_store(a, i,
        init_RNN_mode(DreamCfg(p, Len(imgs)), p,
                      [b \in DreamRows |-> [t \in 1 .. Len(imgs) |-> 0]]))

\* a recurrent forward that stores a cache in the dict it finds without
\* reading the bundle
forward_RNN_mode_blind(a, i, p, imgs) ==
    [err |-> "none",
     attrs |-> S4_vars_set_hidden(a, i,
                   [k \in LayerKeys(1, DreamLayers) |-> [b \in DreamRows |-> COne]])]

forward_RNN_mode_store(a, i, r) ==
    [err |-> "none", attrs |-> S4_vars_set_hidden(a, i, r.cache)]

\* _forward_RNN_mode on instance i: the arguments of apply read
\* self.S4_vars["matrices"] and self.S4_vars["hidden"]; the call of the model
\* mixes posteriors[:, :-1] and actions[:, 1:]; then
\* self.S4_vars["hidden"] = vars["cache"]
forward_RNN_mode_on(a, i, p, imgs) ==
    IF "matrices" \notin DOMAIN S4_vars_read(a, i) THEN [err |-> "KeyError", attrs |-> a]
    ELSE forward_RNN_mode_store(a, i,
             PSSM_apply(DreamCfg(p, Len(imgs)),
                 [hidden |-> S4_vars_read(a, i).hidden, matrices |-> S4_vars_read(a, i).matrices],
                 [b \in DreamRows |->
                     [t \in 1 .. (Len(imgs) - 1) |-> input_head(latent_posterior(imgs[t]), 0)]]))

dream_on_out(a, i, out) == [out |-> out, attrs |-> S4_vars_set_hidden(a, i, out.S4_vars.hidden)]

\* dream after _init_RNN_mode went through: context and rollout read and
\* write self.S4_vars
dream_on_primed(a, i, cfg, imgs, actions, dream_actions, dream_length) ==
    dream_on_out(a, i,
        dream_context(cfg, S4_vars_read(a, i), dream_actions, dream_length,
                      build_context(cfg, S4_vars_read(a, i), imgs, actions)))

dream_on_init(a, i, cfg, imgs, actions, dream_actions, dream_length, r) ==
    IF r.err # "none" THEN [out |-> DreamFailed(r.err), attrs |-> a]
    ELSE dream_on_primed(r.attrs, i, cfg, imgs, actions, dream_actions, dream_length)

\* dream on instance i, whatever earlier calls left in S4_vars
dream_on(a, i, p, imgs, actions, dream_actions, dream_length) ==
    dream_on_init(a, i, DreamCfg(p, Len(imgs[0])), imgs, actions, dream_actions, dream_length,
                  init_RNN_mode_on(a, i, p, imgs[0]))

InstCall_store(op, p, imgs, r) ==
    attrs' = [r.attrs EXCEPT !.last = [NoInstCall EXCEPT !.op = op, !.err = r.err,
                                                         !.params = p, !.imgs = imgs]]

\* A._init_RNN_mode(params, rngs, zeros, zeros)
InstInitRNN(p, imgs) ==
    InstCall_store("_init_RNN_mode", p, imgs, init_RNN_mode_on(attrs, "A", p, imgs))

\* A._forward_RNN_mode(params, imgs, actions)
InstForwardRNN(p, imgs) ==
    InstCall_store("_forward_RNN_mode", p, imgs, forward_RNN_mode_on(attrs, "A", p, imgs))

InstDream_store(p, ctx, acts, K, r) ==
    attrs' = [r.attrs EXCEPT !.last = [op |-> "dream", err |-> r.out.err, params |-> p,
                                       imgs |-> ctx, dream_actions |-> acts,
                                       dream_length |-> K, out |-> r.out]]

\* A.dream(params, context_imgs, context_actions, dream_actions, dream_length)
InstDream(p, ctx, acts, K) ==
    InstDream_store(p, ctx, acts, K,
        dream_on(attrs, "A", p, [b \in DreamRows |-> ctx],
                 [b \in DreamRows |-> [t \in 1 .. Len(ctx) |-> 0]],
                 [b \in DreamRows |-> acts], K))

\* ------------------------------- S4WorldModel: statistics and loss
VARIABLES
    wmodel       \* one S4WorldModel: its configuration and its last method call

\* groups of the discrete latent tried (32 in get_statistics' reshape)
Groups == 2
\* classes per group tried (32 in get_statistics' reshape)
Classes == 2
\* largest unnormalised class weight (exp of a logit) tried
MaxWeight == 2
\* largest KL divergence of one latent group tried, in units of one nat
MaxKL == 2
\* longest training sequence tried
MaxSeq == 3

\* jnp.maximum(dynamics_loss, 1.0), jnp.maximum(representation_loss, 1.0)
free_bits == 1
\* alpha: float = 0.8, as alpha_num / alpha_den
alpha_num == 4
alpha_den == 5
\* beta_rec: float = 1.0
beta_rec == 1
\* beta_kl: float = 0.0
beta_kl == 0

\* exact fractions <<numerator, denominator>>, denominator > 0
RECURSIVE GCD(_, _)
GCD(a, b) == IF b = 0 THEN a ELSE GCD(b, a % b)

\* the fraction n / d in lowest terms
RNorm(n, d) == <<n \div GCD(n, d), d \div GCD(n, d)>>

RAdd(a, b) == RNorm(a[1] * b[2] + b[1] * a[2], a[2] * b[2])

RMul(a, b) == RNorm(a[1] * b[1], a[2] * b[2])

RLeq(a, b) == a[1] * b[2] <= b[1] * a[2]

REq(a, b) == a[1] * b[2] = b[1] * a[2]

RECURSIVE RSum(_, _)
\* the sum of the first n entries of a 0-based vector of fractions
RSum(v, n) == IF n = 0 THEN <<0, 1>> ELSE RAdd(RSum(v, n - 1), v[n - 1])

RECURSIVE NSum(_, _)
\* the sum of the first n entries of a 0-based vector of numbers
NSum(v, n) == IF n = 0 THEN 0 ELSE NSum(v, n - 1) + v[n - 1]

NMax(a, b) == IF a >= b THEN a ELSE b

\* unimix values a caller may pass: 0.01 (the callers' value), 0.5, and 0
Unimixes == {<<1, 100>>, <<1, 2>>, <<0, 1>>}

\* distribution kinds a caller may name
DistKinds == {"MSE", "OneHot", "NormalDiag", "Categorical"}

\* latent_dim values a model may be configured with: the layout of the
\* reshape, and others
LatentDims == {Groups * Classes, Classes, Groups * Classes + 1}

NoWModel == [constructed |-> FALSE, discrete |-> TRUE, latent_dim |-> 0, op |-> "none",
             arg |-> <<>>, out |-> <<>>, err |-> "none"]

\* S4WorldModel(...) and setup: the fields are stored, the submodules are
\* created; no field is checked
S4WorldModel_setup(discrete, latent_dim) ==
    [NoWModel EXCEPT !.constructed = TRUE, !.discrete = discrete, !.latent_dim = latent_dim,
                     !.op = "setup"]

\* get_distribution_from_statistics(statistics, dist_type)
get_distribution_from_statistics(statistics, dist_type) ==
    IF dist_type = "MSE" THEN [err |-> "none", dist |-> [kind |-> "MSEDist", stats |-> statistics]]
    ELSE IF dist_type = "OneHot"
    THEN [err |-> "none", dist |-> [kind |-> "Independent(OneHotDist)", stats |-> statistics]]
    ELSE IF dist_type = "NormalDiag"
    THEN [err |-> "none", dist |-> [kind |-> "MultivariateNormalDiag", stats |-> statistics]]
    ELSE [err |-> "NotImplementedError", dist |-> <<>>]

\* jax.nn.softmax(logits, -1) of one group: the class weights exp(logit)
\* over their sum
softmax(w) == [c \in 0 .. (Classes - 1) |-> <<w[c], NSum(w, Classes)>>]

\* a unimix with the uniform part left out
unimix_no_uniform(probs, unimix) ==
    [c \in DOMAIN probs |-> RMul(<<unimix[2] - unimix[1], unimix[2]>>, probs[c])]

\* probs = (1 - unimix) * probs + unimix * uniform, uniform = 1 / shape[-1]
unimix_probs(probs, unimix) ==
    [c \in DOMAIN probs |->
        RAdd(RMul(<<unimix[2] - unimix[1], unimix[2]>>, probs[c]),
             RMul(unimix, <<1, Classes>>))]

\* logits.reshape(B, T, 32, 32) on a head output of latent_dim entries
reshape_groups(x) == [g \in 0 .. (Groups - 1) |-> [c \in 0 .. (Classes - 1) |-> x[g * Classes + c]]]

\* the discrete branch after the reshape; logits = jnp.log(probs) is kept as
\* the probabilities it is the logarithm of
discrete_statistics(grouped, unimix) ==
    [g \in DOMAIN grouped |->
        IF unimix[1] # 0 THEN [log_of |-> unimix_probs(softmax(grouped[g]), unimix)]
        ELSE [logit_of |-> grouped[g]]]

\* get_statistics(x, statistics_head, discrete, unimix): x is the output of
\* the statistics head, latent_dim entries in the discrete case and
\* 2 * latent_dim (mean, then std) otherwise
get_statistics(latent_dim, x, discrete, unimix) ==
    IF discrete
    THEN IF latent_dim # Groups * Classes
         THEN [err |-> "TypeError", statistics |-> <<>>]
         ELSE [err |-> "none",
               statistics |-> [logits |-> discrete_statistics(reshape_groups(x), unimix)]]
    ELSE [err |-> "none",
          statistics |-> [mean |-> [i \in 0 .. (latent_dim - 1) |-> x[i]],
                          std |-> [sigmoid_of |-> [i \in 0 .. (latent_dim - 1) |-> x[latent_dim + i]]]]]

\* the head outputs tried: in every group one class of weight w, the others
\* of weight v, the heavy class moving with the group
HeadOutputs(latent_dim) ==
    {[i \in 0 .. (latent_dim - 1) |->
        IF i % Classes = (hot + i \div Classes) % Classes THEN w ELSE v] :
     hot \in 0 .. (Classes - 1),
     w \in 1 .. MaxWeight, v \in 0 .. MaxWeight}

\* tfd.Independent(OneHotDist(logits), 1).kl_divergence(other): the group
\* axis is part of the event, the divergences of the groups are added
Independent_kl_divergence(group_kl) == NSum(group_kl, Groups)

compute_loss_sum(dynamics_loss, representation_loss, reconstruction) ==
    [dynamics_loss |-> dynamics_loss,
     representation_loss |-> representation_loss,
     kl_loss |-> RAdd(RMul(<<alpha_num, alpha_den>>, <<dynamics_loss, 1>>),
                      RMul(<<alpha_den - alpha_num, alpha_den>>, <<representation_loss, 1>>)),
     loss |-> RAdd(<<beta_rec * reconstruction, 1>>,
                   RMul(<<beta_kl, 1>>,
                        RAdd(RMul(<<alpha_num, alpha_den>>, <<dynamics_loss, 1>>),
                             RMul(<<alpha_den - alpha_num, alpha_den>>,
                                  <<representation_loss, 1>>))))]

\* compute_loss on one timestep: group_kl[g] is the divergence of posterior
\* and prior in group g, reconstruction is -log_prob of the image
compute_loss(group_kl, reconstruction) ==
    compute_loss_sum(NMax(Independent_kl_divergence(group_kl), free_bits),
                     NMax(Independent_kl_divergence(group_kl), free_bits),
                     reconstruction)

\* x[:, :-1]
DropLast(x) == SubSeq(x, 1, Len(x) - 1)

\* x[:, 1:]
DropFirst(x) == SubSeq(x, 2, Len(x))

\* S4WorldModel.__call__(imgs, actions): posteriors of every image, the
\* mixed input of posteriors[:, :-1] and actions[:, 1:], one hidden state and
\* one prior per mixed input, image priors from hidden and posteriors[:, 1:]
WM_call_out(z_post, g) ==
    [z_posterior |-> z_post,
     z_prior |-> [k \in 1 .. Len(g) |-> [hidden |-> g[k]]],
     img_prior |-> [k \in 1 .. Len(g) |-> [hidden |-> g[k], z |-> DropFirst(z_post)[k]]]]

WM_call(imgs, actions) ==
    WM_call_out([t \in 1 .. Len(imgs) |-> [img |-> imgs[t]]],
                [k \in 1 .. (Len(imgs) - 1) |->
                    [z |-> [img |-> DropLast(imgs)[k]], action |-> DropFirst(actions)[k]]])

\* a loss call on the posteriors of every timestep
loss_args_unsliced(out) == [z_posterior_dist |-> out.z_posterior, z_prior_dist |-> out.z_prior]

\* train_step: compute_loss(z_posterior_dist=out[z_post][dist][:, 1:],
\* z_prior_dist=out[z_prior][dist])
loss_args(out) == [z_posterior_dist |-> DropFirst(out.z_posterior), z_prior_dist |-> out.z_prior]

\* one S4WorldModel is constructed
Construct(discrete, latent_dim) ==
    /\ ~wmodel.constructed
    /\ wmodel' = S4WorldModel_setup(discrete, latent_dim)

GetDistribution_store(dist_type, r) ==
    wmodel' = [wmodel EXCEPT !.op = "get_distribution_from_statistics", !.arg = dist_type,
                             !.out = r.dist, !.err = r.err]

\* a call of get_distribution_from_statistics on the constructed model
GetDistribution(dist_type) ==
    /\ wmodel.constructed
    /\ GetDistribution_store(dist_type, get_distribution_from_statistics(<<>>, dist_type))

GetStatistics_store(x, unimix, r) ==
    wmodel' = [wmodel EXCEPT !.op = "get_statistics", !.arg = [x |-> x, unimix |-> unimix],
                             !.out = r.statistics, !.err = r.err]

\* a call of get_statistics on the output x of a statistics head
GetStatistics(x, unimix) ==
    /\ wmodel.constructed
    /\ GetStatistics_store(x, unimix, get_statistics(wmodel.latent_dim, x, wmodel.discrete, unimix))

\* a call of compute_loss on the distributions of one timestep
ComputeLoss(group_kl, reconstruction) ==
    /\ wmodel.constructed
    /\ wmodel' = [wmodel EXCEPT !.op = "compute_loss", !.arg = group_kl,
                                !.out = compute_loss(group_kl, reconstruction),
                                !.err = "none"]

TrainStep_store(T, err, out) ==
    wmodel' = [wmodel EXCEPT !.op = "train_step", !.arg = T,
                             !.out = IF err = "none"
                                     THEN [out |-> out, loss_args |-> loss_args(out)]
                                     ELSE <<>>,
                             !.err = err]

\* the forward pass of train_step on a sequence of T timesteps, numbered
\* from 0, and the arguments its loss call receives; the pass ends in
\* get_statistics when the reshape of the discrete branch fails
TrainStep(T) ==
    /\ wmodel.constructed
    /\ TrainStep_store(T,
           get_statistics(wmodel.latent_dim, [i \in 0 .. (2 * wmodel.latent_dim - 1) |-> 1],
                          wmodel.discrete, <<1, 100>>).err,
           WM_call([t \in 1 .. T |-> t - 1], [t \in 1 .. T |-> t - 1]))

\* ------------------------------------------------------ specifications
vars == <<n_blocks, params, rnn_cache, prime, calls, last, ref_cache, ref_hidden, touched,
          layer, wm, wmodel, attrs>>

WrapperIdle ==
    /\ n_blocks = S4Blocks_n_blocks
    /\ params = InitParams
    /\ rnn_cache = <<>>
    /\ prime = <<>>
    /\ calls = 0
    /\ last = NoCall
    /\ ref_cache = <<>>
    /\ ref_hidden = <<>>
    /\ touched = {}

\* TorchWrapper after construction
Init == WrapperInit /\ layer = NoLayer /\ wm = NoWM /\ wmodel = NoWModel /\ attrs = NoAttrs

Next ==
    \/ DoForward /\ UNCHANGED <<layer, wm, wmodel, attrs>>
    \/ DoResetCache /\ UNCHANGED <<layer, wm, wmodel, attrs>>

Spec == Init /\ [][Next]_vars

\* one S4Layer with fixed parameters and a fixed input sequence
InitLayer ==
    /\ WrapperIdle
    /\ wm = NoWM
    /\ wmodel = NoWModel
    /\ attrs = NoAttrs
    /\ \E p \in ParamSets : \E L \in 1 .. LMax : \E u \in SeqsUpTo(Reals, L) :
          layer = [NoLayer EXCEPT !.params = p, !.l_max = L, !.u = u]

DoLayerReprime ==
    \E p \in ParamSets : \E mutable \in {{"prime"}, {"cache", "prime"}} : \E v \in Reals :
        LayerReprime(p, mutable, v)

NextLayer ==
    \/ LayerCNN /\ UNCHANGED <<wrapper_vars, wm, wmodel, attrs>>
    \/ LayerPrime /\ UNCHANGED <<wrapper_vars, wm, wmodel, attrs>>
    \/ LayerStep /\ UNCHANGED <<wrapper_vars, wm, wmodel, attrs>>
    \/ DoLayerReprime /\ UNCHANGED <<wrapper_vars, wm, wmodel, attrs>>

SpecLayer == InitLayer /\ [][NextLayer]_vars

\* a constructed S4WorldModel
InitDream == WrapperIdle /\ layer = NoLayer /\ wm = NoWM /\ wmodel = NoWModel /\ attrs = NoAttrs

DoDream ==
    \E p \in ParamSets : \E ctx \in SeqsUpTo(Inputs, MaxCtx) : \E K \in 0 .. MaxDream :
       \E acts \in SeqsOfLen(Inputs, K) : Dream(p, ctx, acts, K)

NextDream == DoDream /\ UNCHANGED <<wrapper_vars, layer, wmodel, attrs>>

SpecDream == InitDream /\ [][NextDream]_vars

\* one S4WorldModel, its statistics, distributions, loss and training pass
InitModel == WrapperIdle /\ layer = NoLayer /\ wm = NoWM /\ wmodel = NoWModel /\ attrs = NoAttrs

DoConstruct == \E discrete \in BOOLEAN : \E latent_dim \in LatentDims : Construct(discrete, latent_dim)

DoGetDistribution == \E dist_type \in DistKinds : GetDistribution(dist_type)

DoGetStatistics ==
    \E x \in HeadOutputs(IF wmodel.discrete THEN wmodel.latent_dim ELSE 2 * wmodel.latent_dim) :
        \E unimix \in Unimixes : GetStatistics(x, unimix)

DoComputeLoss ==
    \E group_kl \in [0 .. (Groups - 1) -> 0 .. MaxKL] : \E reconstruction \in 0 .. 1 :
        ComputeLoss(group_kl, reconstruction)

DoTrainStep == \E T \in 1 .. MaxSeq : TrainStep(T)

NextModel ==
    \/ DoConstruct /\ UNCHANGED <<wrapper_vars, layer, wm, attrs>>
    \/ DoGetDistribution /\ UNCHANGED <<wrapper_vars, layer, wm, attrs>>
    \/ DoGetStatistics /\ UNCHANGED <<wrapper_vars, layer, wm, attrs>>
    \/ DoComputeLoss /\ UNCHANGED <<wrapper_vars, layer, wm, attrs>>
    \/ DoTrainStep /\ UNCHANGED <<wrapper_vars, layer, wm, attrs>>

SpecModel == InitModel /\ [][NextModel]_vars

\* two S4WorldModel instances, the recurrent calls made on the first
InitInstances ==
    WrapperIdle /\ layer = NoLayer /\ wm = NoWM /\ wmodel = NoWModel /\ attrs = NoAttrs

DoInstInitRNN == \E p \in ParamSets : \E imgs \in SeqsUpTo(Inputs, MaxCtx) : InstInitRNN(p, imgs)

DoInstForwardRNN ==
    \E p \in ParamSets : \E imgs \in SeqsUpTo(Inputs, MaxCtx) : InstForwardRNN(p, imgs)

DoInstDream ==
    \E p \in ParamSets : \E ctx \in SeqsUpTo(Inputs, MaxCtx) : \E K \in 0 .. MaxDream :
       \E acts \in SeqsOfLen(Inputs, K) : InstDream(p, ctx, acts, K)

NextInstances ==
    \/ DoInstInitRNN /\ UNCHANGED <<wrapper_vars, layer, wm, wmodel>>
    \/ DoInstForwardRNN /\ UNCHANGED <<wrapper_vars, layer, wm, wmodel>>
    \/ DoInstDream /\ UNCHANGED <<wrapper_vars, layer, wm, wmodel>>

SpecInstances == InitInstances /\ [][NextInstances]_vars

\* ------------------------------------------------------------ claims
AllZero(cache) == \A k \in DOMAIN cache : \A b \in Rows : cache[k][b] = CZero

\* rows the index list of the last call denotes, written out from the list:
\* row b is denoted by b, and by b - batch_dim counted from the end
Denoted(b) == b \in last.batch_idx \/ (b - BatchDim) \in last.batch_idx

C2_CacheIsolation ==
    \A b \in Rows \ touched :
        /\ \A k \in DOMAIN rnn_cache : rnn_cache[k][b] = ref_cache[k][b]
        /\ last.op = "forward" => last.hidden[b] = ref_hidden[b]

\* a forward after a reset: the reset row now differs from the twin's, and an
\* untouched row carries state
C2_Witness ==
    /\ last.op = "forward"
    /\ touched # {}
    /\ \E b \in touched : last.hidden[b] # ref_hidden[b]
    /\ \E b \in Rows \ touched : \E k \in DOMAIN rnn_cache : rnn_cache[k][b] # CZero

\* C8: the cache is all zeros before the first forward, and after
\* reset_cache every reset row holds the all-zero value of a fresh row.
C8_ResetToZero ==
    /\ calls = 0 => AllZero(rnn_cache)
    /\ last.op = "reset_cache" /\ last.err = "none" =>
          \A k \in DOMAIN rnn_cache : \A b \in Rows : Denoted(b) => rnn_cache[k][b] = CZero

\* C9: reset_cache with an index outside 0 .. batch_dim - 1 does not return
\* normally.
C9_OutOfRangeReported ==
    last.op = "reset_cache" /\ (\E i \in last.batch_idx : i \notin Rows) => last.err # "none"

\* C10: the primed bundle is the discretization of the wrapper's parameters
\* in every state, and every forward used the discretization of the
\* parameters it was given.
C10_BundleNeverStale ==
    /\ \A k \in DOMAIN prime : prime[k] = S4Layer_init_discrete(params)
    /\ last.op = "forward" =>
          \A k \in DOMAIN prime : last.ssm[k] = S4Layer_init_discrete(last.params)

\* a forward after a reset, under parameters whose bundle differs from the
\* one self.init builds from the initializers
C10_Witness ==
    /\ last.op = "forward"
    /\ touched # {}
    /\ S4Layer_init_discrete(last.params) # S4Layer_init_discrete(InitParams)

\* C7: with fixed parameters and an input of length at most l_max, the
\* outputs of the RNN-mode layer stepped one input at a time from a zero
\* cache equal, position by position, the CNN-mode output.
C7_ModeEquivalence ==
    layer.cnn_done => \A t \in 1 .. Len(layer.rnn) : layer.rnn[t] = layer.cnn[t]

\* both modes ran over a whole sequence of the longest length whose output
\* is not the input scaled by D alone
C7_Witness ==
    /\ layer.cnn_done
    /\ Len(layer.u) = LMax
    /\ Len(layer.rnn) = Len(layer.u)
    /\ \E t \in 1 .. Len(layer.u) : layer.cnn[t] # Mod(layer.params.D * layer.u[t])

\* the trajectory lengths one returned dream call must show
DreamReturned(K) ==
    /\ wm.out.err = "none"
    /\ wm.out.returned
    /\ Len(wm.out.hiddens) = K + 1
    /\ Len(wm.out.priors) = K + 1
    /\ Len(wm.out.pred_imgs) = K + 1

\* C3: dream(..., dream_length=K) collects exactly K+1 (hidden, latent
\* sample) pairs and returns a decoded batch with K+1 entries along time.
C3_DreamLength == wm.called => DreamReturned(wm.dream_length)

\* C4: one dream call runs PRIMING, then exactly dream_length ROLLOUT_STEPs,
\* then exactly one DECODE, in that order and nothing else.
C4_PhaseOrder ==
    wm.called =>
        wm.out.phases = <<"PRIMING">> \o [i \in 1 .. wm.dream_length |-> "ROLLOUT_STEP"]
                           \o <<"DECODE">>

\* the scan state a recurrent pass over the context reaches from a zero
\* cache under the bundle of the given parameters
ContextScanState(p, ctx) ==
    S4Blocks_vmap([DreamCfg(p, Len(ctx)) EXCEPT !.rnn_mode = TRUE, !.mutable = {"cache"}],
        [b \in DreamRows |-> [t \in 1 .. Len(ctx) |-> input_head(latent_posterior(ctx[t]), 0)]],
        [k \in LayerKeys(1, DreamLayers) |-> [b \in DreamRows |-> CZero]],
        [k \in LayerKeys(1, DreamLayers) |-> S4Layer_init_discrete(p)]).cache

\* C5: after PRIMING the cache dream holds for the following steps is the
\* scan state at the last context timestep.
C5_PrimingPopulatesCache ==
    wm.called =>
        /\ wm.out.primed
        /\ wm.out.primed_cache = ContextScanState(wm.params, wm.imgs)

\* one scan step of layer k on row b from state x0 under input v
OneStepFrom(k, x0, v) == CAdd(CMul(prime[k].Ab, x0), CMul(prime[k].Bb, CReal(v)))

\* C11: every forward starts from the cache the previous call (a forward or
\* a reset) left, and leaves in every layer and row the state one scan step
\* from it: in the first layer the step on the row's input, in a deeper layer
\* a step on the real input the layers before hand it.
C11_AdvanceFromLeftState ==
    [][last'.op = "forward" /\ calls' # calls =>
          /\ last'.pre_cache = rnn_cache
          /\ \A b \in Rows :
                rnn_cache'[<<0, 0>>][b] = OneStepFrom(<<0, 0>>, rnn_cache[<<0, 0>>][b], last'.u[b])
          /\ \A k \in DOMAIN rnn_cache : \A b \in Rows :
                \E v \in Reals : rnn_cache'[k][b] = OneStepFrom(k, rnn_cache[k][b], v)]_vars

\* a forward that started from a cache holding both a reset row and a row
\* carrying the state of an earlier forward, and moved the state on
C11_Witness ==
    /\ last.op = "forward"
    /\ \E b \in touched : last.pre_cache[<<0, 0>>][b] = ResetValue
    /\ \E b \in Rows : /\ last.pre_cache[<<0, 0>>][b] \notin {CZero, ResetValue}
                       /\ rnn_cache[<<0, 0>>][b] # last.pre_cache[<<0, 0>>][b]

\* C12: whatever value of Lambda_re is stored, the eigenvalue a layer uses
\* has real part <= -1e-4 (-1 in the model's units), and the bundle a primed
\* layer holds is the discretization under that eigenvalue.
C12_StableLambda ==
    layer.l_max > 0 =>
        /\ S4Layer_Lambda_re(layer.params) <= -1
        /\ layer.primed =>
              layer.prime = discrete_DPLR(S4Layer_Lambda(layer.params), layer.params.P,
                                layer.params.P, layer.params.B, S4Layer_C(layer.params),
                                S4Layer_step(layer.params))

\* a layer whose stored Lambda_re is above the bound, with its kernel built
\* and its bundle primed
C12_Witness ==
    /\ layer.params.Lambda_re > -1
    /\ layer.cnn_done
    /\ layer.primed

\* C13: a layer whose stored Lambda_re is above the stability bound never
\* finishes initialization: it builds no kernel and no bundle.
C13_UnstableRejected ==
    layer.params.Lambda_re > -1 => ~layer.cnn_done /\ ~layer.primed

\* C14: a distribution kind outside MSE, OneHot and NormalDiag is refused
\* when the model is constructed, so no call that builds a distribution on a
\* constructed model ever raises for its kind.
C14_KindCheckedAtConstruction ==
    wmodel.constructed /\ wmodel.op = "get_distribution_from_statistics" =>
        wmodel.err # "NotImplementedError"

\* C15: a model with discrete latents is constructed only with latent_dim
\* equal to groups * classes, and get_statistics never fails in its reshape.
C15_LatentDimValidated ==
    /\ wmodel.constructed /\ wmodel.discrete => wmodel.latent_dim = Groups * Classes
    /\ wmodel.op = "get_statistics" => wmodel.err = "none"

\* C16: after the discrete branch of get_statistics with unimix u > 0, in
\* every group every class probability is >= u / num_classes and the
\* probabilities of the group sum to 1.
C16_UnimixFloor ==
    wmodel.op = "get_statistics" /\ wmodel.discrete /\ wmodel.err = "none"
        /\ wmodel.arg.unimix[1] # 0 =>
        \A g \in 0 .. (Groups - 1) :
            /\ \A c \in 0 .. (Classes - 1) :
                  RLeq(RMul(wmodel.arg.unimix, <<1, Classes>>), wmodel.out.logits[g].log_of[c])
            /\ REq(RSum(wmodel.out.logits[g].log_of, Classes), <<1, 1>>)

\* a discrete get_statistics with the callers' unimix on logits whose softmax
\* puts probability 0 on a class
C16_Witness ==
    /\ wmodel.op = "get_statistics"
    /\ wmodel.discrete
    /\ wmodel.err = "none"
    /\ wmodel.arg.unimix = <<1, 100>>
    /\ \E i \in DOMAIN wmodel.arg.x : wmodel.arg.x[i] = 0
    /\ \E g \in 0 .. (Groups - 1) : \E c \in 0 .. (Classes - 1) :
          REq(wmodel.out.logits[g].log_of[c], <<1, 100 * Classes>>)

\* C17: the KL term compute_loss returns for one timestep is at least
\* groups * free_bits: the divergence of every group is floored at free_bits
\* before the groups are added.
C17_FreeBitsPerGroup ==
    wmodel.op = "compute_loss" =>
        /\ wmodel.out.dynamics_loss >= Groups * free_bits
        /\ wmodel.out.representation_loss >= Groups * free_bits
        /\ RLeq(<<Groups * free_bits, 1>>, wmodel.out.kl_loss)

\* C20: a training pass on T timesteps yields T - 1 priors, prior k built
\* from posterior k - 1 and action k, and its loss call pairs them with the
\* posteriors of timesteps 1 .. T - 1, one posterior per prior.
C20_SameTimesteps ==
    wmodel.op = "train_step" /\ wmodel.err = "none" =>
        /\ Len(wmodel.out.out.z_prior) = wmodel.arg - 1
        /\ \A k \in 1 .. Len(wmodel.out.out.z_prior) :
              /\ wmodel.out.out.z_prior[k].hidden.z.img = k - 1
              /\ wmodel.out.out.z_prior[k].hidden.action = k
        /\ Len(wmodel.out.loss_args.z_posterior_dist) = Len(wmodel.out.loss_args.z_prior_dist)
        /\ \A k \in 1 .. Len(wmodel.out.loss_args.z_prior_dist) :
              /\ wmodel.out.loss_args.z_posterior_dist[k].img = k
              /\ wmodel.out.loss_args.z_prior_dist[k].hidden.action = k

\* a training pass on the longest sequence, its loss call made
C20_Witness ==
    /\ wmodel.op = "train_step"
    /\ wmodel.err = "none"
    /\ wmodel.arg = MaxSeq
    /\ Len(wmodel.out.loss_args.z_prior_dist) = MaxSeq - 1

\* C18: reset_cache returns normally for the configured number of blocks,
\* and afterwards every layer the model has holds the reset value in every
\* row the indices denote.
C18_ResetEveryLayer ==
    last.op = "reset_cache" =>
        /\ last.err = "none"
        /\ \A k \in DOMAIN rnn_cache : \A b \in Rows :
              Denoted(b) => rnn_cache[k][b] = ResetValue

RECURSIVE RolloutFrom(_, _)
\* the pair at trajectory position i + 1 is the one step i returns, and the
\* later pairs follow from the cache step i leaves
RolloutStepIs(i, r) ==
    /\ wm.out.hiddens[i + 2] = r.hidden
    /\ wm.out.priors[i + 2] = r.prior
    /\ RolloutFrom(i + 1, r.cache)

\* steps i, i + 1, ... of the rollout, step i starting from the given cache
\* on the sample at position i and the action dream_actions[:, i]
RolloutFrom(i, cache) ==
    IF i >= wm.dream_length THEN TRUE
    ELSE RolloutStepIs(i,
             open_loop_prediction(DreamCfg(wm.params, Len(wm.imgs)),
                 [hidden |-> cache, matrices |-> wm.out.S4_vars.matrices],
                 wm.out.priors[i + 1],
                 [b \in DreamRows |-> wm.dream_actions[i + 1]]))

\* C19: in a dream call of length K the trajectory holds K + 1 pairs, and
\* the pair at position i + 1 is the result of one advance on the sample at
\* position i and the action dream_actions[:, i], from the cache step i - 1
\* (PRIMING for i = 0) left.
C19_RolloutStep ==
    wm.called =>
        /\ Len(wm.out.hiddens) = wm.dream_length + 1
        /\ Len(wm.out.priors) = wm.dream_length + 1
        /\ RolloutFrom(0, wm.out.primed_cache)

C22_InstanceIsolation == S4_vars_read(attrs, "B") = S4_vars_class

\* a _forward_RNN_mode call made on A while A has no S4_vars of its own
C22_Witness ==
    /\ attrs.last.op = "_forward_RNN_mode"
    /\ attrs.inst["A"] = NoAttr

\* C23: every dream call primes anew and returns, and what it returns is
\* what the same call returns on an instance no call was made on before.
C23_DreamIndependent ==
    attrs.last.op = "dream" =>
        /\ attrs.last.out.primed
        /\ attrs.last.out.returned
        /\ attrs.last.out =
              dream(attrs.last.params, [b \in DreamRows |-> attrs.last.imgs],
                    [b \in DreamRows |-> [t \in 1 .. Len(attrs.last.imgs) |-> 0]],
                    [b \in DreamRows |-> attrs.last.dream_actions], attrs.last.dream_length)

====
